---- MODULE Spec2Model ----
(***************************************************************************)
(* A model of the itinerary pipeline of the travel planner:                *)
(*   resolve_config, filter_pois, get_poi_by_ids   (services/poi_service)  *)
(*   get_travel_matrix, optimize_route_greedy      (services/ors_service)  *)
(*   schedule_day                                  (services/scheduler)    *)
(*   build_cost_summary                            (services/cost_service) *)
(*   generate_trip                                 (services/planner)      *)
(*                                                                         *)
(* Encodings.                                                              *)
(*   time     "HH:MM" strings are the minute of the day, 0..1439; a        *)
(*            datetime is the number of minutes since 1900-01-01 00:00,    *)
(*            the date strptime gives a bare time.                         *)
(*   money    hundredths of a rupee (every amount in the code is rounded   *)
(*            to two decimals).                                            *)
(*   rating   tenths (4.3 is 43).                                          *)
(*   place    coordinates lie on one meridian at whole-kilometre spacing,  *)
(*            so a latitude is a number of kilometres and the great-circle *)
(*            distance of two places is the difference of their latitudes. *)
(*   Optional None is <<>>, a supplied value v is <<v>>.                   *)
(*   catalog  a loosely typed numeric field of a place document is a       *)
(*            natural number, Missing (absent or None) or Bad (a value     *)
(*            float() raises on).                                          *)
(***************************************************************************)
EXTENDS Integers, Sequences, FiniteSets, TLC

VARIABLES
    catalog,        \* the places collection of the city, in stream order
    ors,            \* the routing collaborator: "absent", "fails" or a reply
    llm,            \* the text collaborator: "absent", "fails" or "replies"
    call,           \* the call in flight: its operation and arguments
    pc,             \* position of the call
    ret,            \* what the call returned (NoRet before it returns)
    config,         \* generate_trip: the resolved configuration
    day_num,        \* generate_trip: the loop variable
    used_pois,      \* generate_trip: POI ids scheduled so far
    day_schedules,  \* generate_trip: the Day Schedules built so far
    day_log,        \* per day: what was passed to and returned by the stages
    trips           \* concurrent generate_trip calls: the locals of each call

vars == <<catalog, ors, llm, call, pc, ret, config, day_num, used_pois,
          day_schedules, day_log, trips>>

----------------------------------------------------------------------------
(* Bounds of the model *)

MaxDocs == 3
MaxPool == 4
MaxDays == 2
MaxCostDays == 2

----------------------------------------------------------------------------
(* Generic helpers *)

None == <<>>
Some(v) == <<v>>

Max(a, b) == IF a >= b THEN a ELSE b

Range(s) == {s[i] : i \in 1..Len(s)}

RECURSIVE SumSeq(_)
SumSeq(s) == IF s = <<>> THEN 0 ELSE s[1] + SumSeq(Tail(s))

\* sequences without repetition over S, of length at most n
InjSeqs(S, n) ==
    {s \in UNION {[1..k -> S] : k \in 0..n} :
        \A i, j \in 1..Len(s) : i # j => s[i] # s[j]}

----------------------------------------------------------------------------
(* config.py: static tables *)

Missing == -1
Bad == -2

BandIds == {"budget", "economy", "premium"}

BUDGET_BANDS(band) ==
    CASE band = "budget"  -> [daily_budget |-> 80000, max_entry_fee |-> 10000,
                              default_transport |-> "bus", pace |-> "relaxed",
                              stops_per_day |-> <<2, 3>>]
      [] band = "economy" -> [daily_budget |-> 150000, max_entry_fee |-> 30000,
                              default_transport |-> "auto", pace |-> "normal",
                              stops_per_day |-> <<3, 5>>]
      [] band = "premium" -> [daily_budget |-> 350000, max_entry_fee |-> 100000,
                              default_transport |-> "cab", pace |-> "packed",
                              stops_per_day |-> <<5, 7>>]

\* TRANSPORT_RATES.get(mode, TRANSPORT_RATES["auto"])
TRANSPORT_RATES(mode) ==
    CASE mode = "bus"        -> [base |-> 500,  per_km |-> 150]
      [] mode = "metro"      -> [base |-> 1000, per_km |-> 250]
      [] mode = "cab"        -> [base |-> 5000, per_km |-> 2200]
      [] mode = "self_drive" -> [base |-> 0,    per_km |-> 600]
      [] OTHER               -> [base |-> 3000, per_km |-> 1800]

\* TRANSPORT_SPEED.get(mode, 20)
TRANSPORT_SPEED(mode) ==
    CASE mode = "bus"        -> 15
      [] mode = "metro"      -> 35
      [] mode = "cab"        -> 25
      [] mode = "self_drive" -> 30
      [] OTHER               -> 20

\* ACTIVITY_EXTRAS.get(a, 0)
ACTIVITY_EXTRAS(a) ==
    CASE a = "lion_safari"       -> 30000
      [] a = "water_rides"       -> 40000
      [] a = "elephant_ride"     -> 20000
      [] a = "planetarium_shows" -> 4000
      [] a = "horseback_riding"  -> 15000
      [] a = "drive_in"          -> 20000
      [] a = "bowling"           -> 25000
      [] a = "battery_vehicle"   -> 5000
      [] OTHER                   -> 0

----------------------------------------------------------------------------
(* data/packages.py *)

PackageIds == {"pkg-heritage", "pkg-family", "pkg-budget", "pkg-spiritual",
               "pkg-beach", "pkg-shopping"}

PACKAGES(id) ==
    CASE id = "pkg-heritage" ->
           [name |-> "Heritage & History",
            category_primary |-> {"heritage", "temple", "museum"},
            tags |-> <<"fort", "colonial", "dravidian", "8th_century", "british">>,
            activities |-> <<"museum_visit", "history_tour", "photography", "architecture">>,
            defaults |-> [max_entry_fee |-> 15000, min_rating |-> 43,
                          transport_mode |-> "auto", budget_per_day |-> 120000,
                          pace |-> "normal", start_time |-> 540, end_time |-> 1200]]
      [] id = "pkg-family" ->
           [name |-> "Family Fun Day",
            category_primary |-> {"beach", "park", "museum", "attraction"},
            tags |-> <<"family", "zoo", "amusement", "wildlife", "science">>,
            activities |-> <<"wildlife", "water_rides", "planetarium_shows", "safari">>,
            defaults |-> [max_entry_fee |-> 50000, min_rating |-> 42,
                          transport_mode |-> "cab", budget_per_day |-> 200000,
                          pace |-> "normal", start_time |-> 540, end_time |-> 1140]]
      [] id = "pkg-budget" ->
           [name |-> "Budget Explorer",
            category_primary |-> {"beach", "temple", "attraction", "heritage"},
            tags |-> <<"free", "beach", "urban">>,
            activities |-> <<"jogging", "prayer", "photography", "architecture">>,
            defaults |-> [max_entry_fee |-> 0, min_rating |-> 40,
                          transport_mode |-> "bus", budget_per_day |-> 40000,
                          pace |-> "relaxed", start_time |-> 480, end_time |-> 1080]]
      [] id = "pkg-spiritual" ->
           [name |-> "Spiritual Trail",
            category_primary |-> {"temple"},
            tags |-> <<"hindu", "shiva", "vishnu", "divya_desam", "heritage">>,
            activities |-> <<"prayer", "utsavam", "architecture", "heritage">>,
            defaults |-> [max_entry_fee |-> 5000, min_rating |-> 44,
                          transport_mode |-> "auto", budget_per_day |-> 70000,
                          pace |-> "relaxed", start_time |-> 360, end_time |-> 1260]]
      [] id = "pkg-beach" ->
           [name |-> "Coastal Escape",
            category_primary |-> {"beach", "attraction"},
            tags |-> <<"beach", "sunset", "relaxation", "ecr", "drive_in">>,
            activities |-> <<"relaxation", "food_stalls", "surfing", "movies">>,
            defaults |-> [max_entry_fee |-> 30000, min_rating |-> 42,
                          transport_mode |-> "self_drive", budget_per_day |-> 90000,
                          pace |-> "relaxed", start_time |-> 900, end_time |-> 1380]]
      [] id = "pkg-shopping" ->
           [name |-> "Shop & Dine",
            category_primary |-> {"attraction"},
            tags |-> <<"shopping", "mall", "retail", "jewellery", "street_food">>,
            activities |-> <<"shopping", "street_food", "dining", "bargaining">>,
            defaults |-> [max_entry_fee |-> 0, min_rating |-> 40,
                          transport_mode |-> "metro", budget_per_day |-> 150000,
                          pace |-> "packed", start_time |-> 660, end_time |-> 1320]]

----------------------------------------------------------------------------
(* services/poi_service.py *)

\* float(v or 0) raises on a value it cannot parse
Unparseable(v) == v = Bad

\* float(v or 0) for a value it can parse: None and absent count as 0
FloatOr0(v) == IF v = Missing THEN 0 ELSE v

_is_open_during(poi, day_start, day_end) ==
    IF poi.is_open_24hrs THEN TRUE
    ELSE IF Len(poi.opening_hours) # 2 THEN TRUE
    ELSE LET opens  == poi.opening_hours[1]
             closes == poi.opening_hours[2]
         IN  ~(closes <= day_start \/ opens >= day_end)

_tag_score(poi, package_tags) ==
    IF package_tags = <<>> THEN 0
    ELSE Cardinality({i \in 1..Len(package_tags) : package_tags[i] \in poi.tags})

\* the merge by truthiness, overrides.get(key) or fallback: a zero is skipped
_override_or(overrides, key, fallback) ==
    IF overrides[key] # None
       /\ ~(key \in {"max_entry_fee", "total_budget"} /\ overrides[key][1] = 0)
    THEN overrides[key][1] ELSE fallback

_override(overrides, key, fallback) ==
    IF overrides[key] # None THEN overrides[key][1] ELSE fallback

PACKAGES_get(package_id) ==
    IF package_id \in PackageIds THEN PACKAGES(package_id)
    ELSE PACKAGES("pkg-heritage")

BUDGET_BANDS_get(budget_band) ==
    IF budget_band \in BandIds THEN BUDGET_BANDS(budget_band)
    ELSE BUDGET_BANDS("economy")

resolve_config(package_id, budget_band, overrides) ==
    LET pkg      == PACKAGES_get(package_id)
        defaults == pkg.defaults
        band     == BUDGET_BANDS_get(budget_band)
    IN  [name             |-> pkg.name,
         category_primary |-> pkg.category_primary,
         tags             |-> pkg.tags,
         activities       |-> pkg.activities \o overrides.extra_activities,
         max_entry_fee    |-> _override(overrides, "max_entry_fee", band.max_entry_fee),
         min_rating       |-> 40,
         transport_mode   |-> _override(overrides, "transport_mode", band.default_transport),
         budget_per_day   |-> _override(overrides, "total_budget", defaults.budget_per_day),
         pace             |-> _override(overrides, "pace", band.pace),
         start_time       |-> _override(overrides, "start_time", defaults.start_time),
         end_time         |-> _override(overrides, "end_time", defaults.end_time),
         wheelchair_only  |-> _override(overrides, "wheelchair_only", FALSE),
         stops_per_day    |-> band.stops_per_day]

\* the hard filter on the entry fee: a fee float() cannot parse passes
FeeFilter(poi, max_fee) ==
    IF Unparseable(poi.entry_fee) THEN TRUE
    ELSE ~(FloatOr0(poi.entry_fee) > max_fee)

\* the hard filter on the rating: a rating float() cannot parse passes
RatingFilter(poi, min_rating) ==
    IF Unparseable(poi.rating) THEN TRUE
    ELSE ~(FloatOr0(poi.rating) < min_rating)

WheelchairFilter(poi, cfg) ==
    ~(cfg.wheelchair_only /\ ~poi.wheelchair_accessible)

\* all hard filters of the loop body, in the order of the code
HardFilters(poi, cfg, excluded) ==
    /\ poi.poi_id \notin Range(excluded)
    /\ FeeFilter(poi, cfg.max_entry_fee)
    /\ RatingFilter(poi, cfg.min_rating)
    /\ WheelchairFilter(poi, cfg)
    /\ _is_open_during(poi, cfg.start_time, cfg.end_time)

\* the Firestore query: category_primary IN config["category_primary"]; its
\* limit(100) is above every catalog of the model
QueryDocs(docs, cfg) ==
    SelectSeq(docs, LAMBDA d : d.category_primary \in cfg.category_primary)

\* the sort key (-tag score, -popularity, -rating), compared as tuples
SortKeyLess(a, b, pkg_tags) ==
    LET sa == _tag_score(a, pkg_tags)
        sb == _tag_score(b, pkg_tags)
        pa == FloatOr0(a.popularity_score)
        pb == FloatOr0(b.popularity_score)
        ra == FloatOr0(a.rating)
        rb == FloatOr0(b.rating)
    IN  \/ sa > sb
        \/ sa = sb /\ pa > pb
        \/ sa = sb /\ pa = pb /\ ra > rb

\* x placed ahead of the elements it is equal to: a sort that is not stable
RECURSIVE InsertSorted_unstable(_, _, _)
InsertSorted_unstable(x, s, pkg_tags) ==
    IF s = <<>> THEN <<x>>
    ELSE IF ~SortKeyLess(s[1], x, pkg_tags) THEN <<x>> \o s
    ELSE <<s[1]>> \o InsertSorted_unstable(x, Tail(s), pkg_tags)

\* x placed behind every element that does not sort after it (stable)
RECURSIVE InsertSorted(_, _, _)
InsertSorted(x, s, pkg_tags) ==
    IF s = <<>> THEN <<x>>
    ELSE IF SortKeyLess(x, s[1], pkg_tags) THEN <<x>> \o s
    ELSE <<s[1]>> \o InsertSorted(x, Tail(s), pkg_tags)

\* list.sort(key=...): stable
RECURSIVE SortPool(_, _)
SortPool(s, pkg_tags) ==
    IF s = <<>> THEN <<>>
    ELSE InsertSorted(s[Len(s)], SortPool(SubSeq(s, 1, Len(s) - 1), pkg_tags), pkg_tags)

\* the sort key calls float() outside any try: it raises on a value it cannot parse
SortRaises(pool) ==
    \E i \in 1..Len(pool) :
        Unparseable(pool[i].popularity_score) \/ Unparseable(pool[i].rating)

\* the two pools the loop fills
PassedPool(docs, cfg, excluded) ==
    SelectSeq(QueryDocs(docs, cfg), LAMBDA p :
        HardFilters(p, cfg, excluded)
        /\ (_tag_score(p, cfg.tags) > 0 \/ cfg.tags = <<>>))

NoTagPool(docs, cfg, excluded) ==
    SelectSeq(QueryDocs(docs, cfg), LAMBDA p :
        HardFilters(p, cfg, excluded)
        /\ ~(_tag_score(p, cfg.tags) > 0 \/ cfg.tags = <<>>))

\* filter_pois over the documents docs of the city; raised: the call raised
filter_pois(docs, cfg, excluded) ==
    LET passed == PassedPool(docs, cfg, excluded)
        no_tag == NoTagPool(docs, cfg, excluded)
        pool   == IF passed # <<>> THEN passed ELSE no_tag
    IN  IF SortRaises(pool) THEN [raised |-> TRUE, pois |-> <<>>]
        ELSE [raised |-> FALSE, pois |-> SortPool(pool, cfg.tags)]

RECURSIVE get_poi_by_ids(_, _)
get_poi_by_ids(docs, poi_ids) ==
    IF poi_ids = <<>> THEN <<>>
    ELSE SelectSeq(docs, LAMBDA d : d.poi_id = poi_ids[1])
         \o get_poi_by_ids(docs, Tail(poi_ids))

----------------------------------------------------------------------------
(* services/ors_service.py *)

\* both places on one meridian: the great-circle distance, in km
haversine(lat1, lon1, lat2, lon2) ==
    IF lat1 >= lat2 THEN lat1 - lat2 ELSE lat2 - lat1

\* (dist / 20) * 60 minutes
_fallback_matrix(coords) ==
    [i \in 1..Len(coords) |-> [j \in 1..Len(coords) |->
        3 * haversine(coords[i][1], coords[i][2], coords[j][1], coords[j][2])]]

\* What the routing service answers, in minutes, when it answers: "road" rates
\* every kilometre at two minutes plus four minutes to set off; "ring" is a
\* ring road, on which the farther place is the quicker one to reach.
OrsReplies == {"road", "ring"}

OrsDurations(coords, reply) ==
    [i \in 1..Len(coords) |-> [j \in 1..Len(coords) |->
        LET d == haversine(coords[i][1], coords[i][2], coords[j][1], coords[j][2])
        IN  IF i = j THEN 0
            ELSE IF reply = "road" THEN 4 + 2 * d
            ELSE 90 - 2 * d]]

\* client: what the routing collaborator does at this call: "absent" (no
\* client was built), "fails" (distance_matrix raises, or its answer cannot be
\* turned into minutes) or the reply it gives
get_travel_matrix(coords, mode, client) ==
    IF client = "absent" \/ Len(coords) < 2 THEN _fallback_matrix(coords)
    ELSE IF client = "fails" THEN _fallback_matrix(coords)
    ELSE OrsDurations(coords, client)

\* a minimum that keeps the last of several equal ones
NearestOf_last(remaining, matrix, cur_idx) ==
    LET k == CHOOSE k \in 1..Len(remaining) :
                \A j \in 1..Len(remaining) :
                    /\ matrix[cur_idx + 1][remaining[k] + 2]
                           <= matrix[cur_idx + 1][remaining[j] + 2]
                    /\ j > k => matrix[cur_idx + 1][remaining[j] + 2]
                                    > matrix[cur_idx + 1][remaining[k] + 2]
    IN  remaining[k]

\* min(remaining, key=...): the first of the minima, in the order of remaining
NearestOf(remaining, matrix, cur_idx) ==
    LET k == CHOOSE k \in 1..Len(remaining) :
                /\ \A j \in 1..Len(remaining) :
                      matrix[cur_idx + 1][remaining[k] + 2]
                          <= matrix[cur_idx + 1][remaining[j] + 2]
                /\ \A j \in 1..(k - 1) :
                      matrix[cur_idx + 1][remaining[j] + 2]
                          > matrix[cur_idx + 1][remaining[k] + 2]
    IN  remaining[k]

\* the while loop; remaining holds 0-based indices into pois, cur_idx is a row
RECURSIVE GreedyLoop(_, _, _, _)
GreedyLoop(pois, matrix, remaining, cur_idx) ==
    IF remaining = <<>> THEN <<>>
    ELSE LET nearest == NearestOf(remaining, matrix, cur_idx)
         IN  <<pois[nearest + 1]>>
             \o GreedyLoop(pois, matrix,
                           SelectSeq(remaining, LAMBDA i : i # nearest),
                           nearest + 1)

optimize_route_greedy(pois, start_lat, start_lon, mode, client) ==
    IF pois = <<>> THEN <<>>
    ELSE LET coords == <<<<start_lat, start_lon>>>>
                       \o [i \in 1..Len(pois) |-> <<pois[i].lat, pois[i].lon>>]
             matrix == get_travel_matrix(coords, mode, client)
         IN  GreedyLoop(pois, matrix, [i \in 1..Len(pois) |-> i - 1], 0)

----------------------------------------------------------------------------
(* services/scheduler.py *)

PaceIds == {"relaxed", "normal", "packed"}

PACE_STOPS(pace) ==
    CASE pace = "relaxed" -> <<2, 3>>
      [] pace = "normal"  -> <<3, 5>>
      [] pace = "packed"  -> <<5, 7>>

\* datetime.strptime(t, "%H:%M"): minutes since 1900-01-01 00:00
_parse(t) == t

\* dt.strftime("%H:%M"): the time of day; the date is dropped
_fmt(dt) == dt % 1440

\* round(base + per_km * dist_km, 2), in hundredths
transport_cost(dist_km, mode) ==
    LET r == TRANSPORT_RATES(mode)
    IN  r.base + r.per_km * dist_km

\* max(5, int((dist_km / speed) * 60))
travel_mins(dist_km, mode) ==
    Max(5, (dist_km * 60) \div TRANSPORT_SPEED(mode))

RECURSIVE activity_extra_cost(_)
activity_extra_cost(activities) ==
    IF activities = <<>> THEN 0
    ELSE ACTIVITY_EXTRAS(activities[1]) + activity_extra_cost(Tail(activities))

\* int(poi.get("duration_minutes", 60) or 60)
DurationOf(poi) ==
    IF poi.duration_minutes = Missing \/ poi.duration_minutes = 0 THEN 60
    ELSE poi.duration_minutes

\* x[:n]
Prefix(s, n) == SubSeq(s, 1, IF Len(s) < n THEN Len(s) ELSE n)

\* dc.transport_override or transport_mode
EffectiveMode(dc, transport_mode) ==
    IF dc.transport_override # None /\ dc.transport_override[1] # ""
    THEN dc.transport_override[1] ELSE transport_mode

\* the state of the walk before the first POI
WalkInit(dc, hotel_lat, hotel_lon) ==
    [slots |-> <<>>, cur_time |-> _parse(dc.start_time),
     prev_lat |-> hotel_lat, prev_lon |-> hotel_lon,
     day_entry |-> 0, day_transport |-> 0, day_extras |-> 0,
     total_mins_used |-> 0, raised |-> FALSE]

\* a break that tests the arrival, not the departure
PastEnd_arrival(arrive, depart, end_time) == arrive > end_time

\* the break condition of the loop
PastEnd(arrive, depart, end_time) == depart > end_time

\* a loop that passes over a POI that does not fit and goes on with the next
RECURSIVE Walk_skip(_, _, _, _, _)
Walk_skip(ordered, i, w, end_time, mode) ==
    IF i > Len(ordered) THEN w
    ELSE LET poi    == ordered[i]
             dist   == haversine(w.prev_lat, w.prev_lon, poi.lat, poi.lon)
             t_mins == travel_mins(dist, mode)
             t_cost == transport_cost(dist, mode)
             dur    == DurationOf(poi)
             ext    == activity_extra_cost(poi.activities)
             arrive == w.cur_time + t_mins
             depart == arrive + dur
         IN  IF Unparseable(poi.entry_fee) THEN [w EXCEPT !.raised = TRUE]
             ELSE IF PastEnd(arrive, depart, end_time)
                  THEN Walk_skip(ordered, i + 1, w, end_time, mode)
             ELSE IF Unparseable(poi.rating) THEN [w EXCEPT !.raised = TRUE]
             ELSE LET fee  == FloatOr0(poi.entry_fee)
                      slot == [poi_id                |-> poi.poi_id,
                               start_time            |-> _fmt(arrive),
                               end_time              |-> _fmt(depart),
                               duration_mins         |-> dur,
                               travel_from_prev_mins |-> t_mins,
                               travel_from_prev_cost |-> t_cost,
                               entry_fee             |-> fee,
                               activity_extras       |-> ext,
                               slot_total            |-> fee + t_cost + ext,
                               lat                   |-> poi.lat,
                               lon                   |-> poi.lon]
                  IN  Walk_skip(ordered, i + 1,
                           [slots           |-> Append(w.slots, slot),
                            cur_time        |-> depart,
                            prev_lat        |-> poi.lat,
                            prev_lon        |-> poi.lon,
                            day_entry       |-> w.day_entry + fee,
                            day_transport   |-> w.day_transport + t_cost,
                            day_extras      |-> w.day_extras + ext,
                            total_mins_used |-> w.total_mins_used + t_mins + dur,
                            raised          |-> FALSE],
                           end_time, mode)

\* the for loop over ordered, from position i on, with the locals in w
RECURSIVE Walk(_, _, _, _, _)
Walk(ordered, i, w, end_time, mode) ==
    IF i > Len(ordered) THEN w
    ELSE LET poi    == ordered[i]
             dist   == haversine(w.prev_lat, w.prev_lon, poi.lat, poi.lon)
             t_mins == travel_mins(dist, mode)
             t_cost == transport_cost(dist, mode)
             dur    == DurationOf(poi)
             ext    == activity_extra_cost(poi.activities)
             arrive == w.cur_time + t_mins
             depart == arrive + dur
         IN  IF Unparseable(poi.entry_fee) THEN [w EXCEPT !.raised = TRUE]
             ELSE IF PastEnd(arrive, depart, end_time) THEN w
             ELSE IF Unparseable(poi.rating) THEN [w EXCEPT !.raised = TRUE]
             ELSE LET fee  == FloatOr0(poi.entry_fee)
                      slot == [poi_id                |-> poi.poi_id,
                               start_time            |-> _fmt(arrive),
                               end_time              |-> _fmt(depart),
                               duration_mins         |-> dur,
                               travel_from_prev_mins |-> t_mins,
                               travel_from_prev_cost |-> t_cost,
                               entry_fee             |-> fee,
                               activity_extras       |-> ext,
                               slot_total            |-> fee + t_cost + ext,
                               lat                   |-> poi.lat,
                               lon                   |-> poi.lon]
                  IN  Walk(ordered, i + 1,
                           [slots           |-> Append(w.slots, slot),
                            cur_time        |-> depart,
                            prev_lat        |-> poi.lat,
                            prev_lon        |-> poi.lon,
                            day_entry       |-> w.day_entry + fee,
                            day_transport   |-> w.day_transport + t_cost,
                            day_extras      |-> w.day_extras + ext,
                            total_mins_used |-> w.total_mins_used + t_mins + dur,
                            raised          |-> FALSE],
                           end_time, mode)

\* the free minutes without the clamp at zero
FreeMins_unclamped(available_mins, total_mins_used) ==
    available_mins - total_mins_used

\* max(0, available_mins - total_mins_used)
FreeMins(available_mins, total_mins_used) ==
    Max(0, available_mins - total_mins_used)

\* a route orderer that is handed the whole wider pool
RoutedPool_wide(pois, dc) == Prefix(pois, PACE_STOPS(dc.pace)[2] * 2)

\* the POIs handed to the route orderer
RoutedPool(pois, dc) ==
    LET max_stops  == PACE_STOPS(dc.pace)[2]
        candidates == Prefix(pois, max_stops * 2)
    IN  Prefix(candidates, max_stops)

\* a return leg that is charged only when the day has a stop
ReturnLeg_ifstops(w, hotel_lat, hotel_lon, mode) ==
    LET ret_dist == haversine(w.prev_lat, w.prev_lon, hotel_lat, hotel_lon)
    IN  IF w.slots = <<>> THEN [cost |-> 0, mins |-> 0]
        ELSE [cost |-> transport_cost(ret_dist, mode),
              mins |-> travel_mins(ret_dist, mode)]

\* the leg back to the hotel from where the walk ended: ret_cost and ret_mins
ReturnLeg(w, hotel_lat, hotel_lon, mode) ==
    LET ret_dist == haversine(w.prev_lat, w.prev_lon, hotel_lat, hotel_lon)
    IN  [cost |-> transport_cost(ret_dist, mode),
         mins |-> travel_mins(ret_dist, mode)]

\* schedule_day; raised: the call raised, and sched is not returned
schedule_day(pois, dc, transport_mode, hotel_lat, hotel_lon, client) ==
    LET effective_mode == EffectiveMode(dc, transport_mode)
        ordered  == optimize_route_greedy(RoutedPool(pois, dc), hotel_lat,
                                          hotel_lon, effective_mode, client)
        end_time == _parse(dc.end_time)
        w        == Walk(ordered, 1, WalkInit(dc, hotel_lat, hotel_lon),
                         end_time, effective_mode)
        leg      == ReturnLeg(w, hotel_lat, hotel_lon, effective_mode)
        ret_cost == leg.cost
        ret_mins == leg.mins
        day_transport   == w.day_transport + ret_cost
        total_mins_used == w.total_mins_used + ret_mins
        available_mins  == _parse(dc.end_time) - _parse(dc.start_time)
    IN  [raised  |-> w.raised,
         ordered |-> ordered,
         sched   |-> [day_number |-> dc.day_number,
                      slots      |-> w.slots,
                      total_mins |-> total_mins_used,
                      free_mins  |-> FreeMins(available_mins, total_mins_used),
                      cost_breakdown |->
                          [entry            |-> w.day_entry,
                           transport        |-> day_transport,
                           extras           |-> w.day_extras,
                           return_transport |-> ret_cost,
                           total |-> w.day_entry + day_transport + w.day_extras]]]

----------------------------------------------------------------------------
(* services/llm_service.py *)

\* The collaborators of a call: a client that is "flaky" answers or fails,
\* request by request; any other client does the same at every request.
OrsOutcomes(client) == IF client = "flaky" THEN {"road", "fails"} ELSE {client}

LlmOutcomes(client) == IF client = "flaky" THEN {"replies", "fails"} ELSE {client}

\* a suggestion that hands the failure on as its text
suggest_budget_fix_report(over_by, client) ==
    IF client = "absent" THEN ""
    ELSE IF client = "fails" THEN "request failed"
    ELSE "suggestion"

\* suggest_budget_fix: "" without a client or when the request fails
suggest_budget_fix(over_by, client) ==
    IF client = "absent" THEN ""
    ELSE IF client = "fails" THEN ""
    ELSE "suggestion"

\* generate_summary: a fixed string without a client or when the request fails
generate_summary(client) ==
    IF client = "absent" THEN "Your itinerary has been generated successfully!"
    ELSE IF client = "fails" THEN "Your trip is ready - enjoy exploring Chennai!"
    ELSE "summary"

----------------------------------------------------------------------------
(* services/cost_service.py *)

\* d.get(key): None when the key is absent
DictGet(d, key) == IF key \in DOMAIN d THEN Some(d[key]) ELSE None

\* f"{x:.0f}": x hundredths to the nearest unit, halves to the even unit
Format0f(x) ==
    LET a == IF x >= 0 THEN x ELSE -x
        q == a \div 100
        r == a % 100
        n == IF r > 50 \/ (r = 50 /\ q % 2 = 1) THEN q + 1 ELSE q
    IN  IF x >= 0 THEN n ELSE -n

\* round(a / n, 2) for a >= 0 in hundredths, halves to the even hundredth
RoundDiv(a, n) ==
    LET q == a \div n
        r == a % n
    IN  IF 2 * r > n \/ (2 * r = n /\ q % 2 = 1) THEN q + 1 ELSE q

\* the per-day warnings of the first loop, for days[i..]
RECURSIVE DayCapWarnings(_, _)
DayCapWarnings(days, i) ==
    IF i > Len(days) THEN <<>>
    ELSE LET day == days[i]
             cap == DictGet(day.cost_breakdown, "max_budget")
         IN  (IF cap # None /\ cap[1] # 0 /\ day.cost_breakdown.total > cap[1]
              THEN <<[kind |-> "day_cap", day |-> day.day_number,
                      over |-> Format0f(day.cost_breakdown.total - cap[1])]>>
              ELSE <<>>)
             \o DayCapWarnings(days, i + 1)

\* a warning already at the budget, not only above it
TotalWarning_at(grand_total, total_budget) ==
    IF grand_total >= total_budget
    THEN <<[kind |-> "total", total |-> Format0f(grand_total),
            budget |-> Format0f(total_budget),
            over |-> Format0f(grand_total - total_budget)]>>
    ELSE <<>>

\* the trip-level warning
TotalWarning(grand_total, total_budget) ==
    IF grand_total > total_budget
    THEN <<[kind |-> "total", total |-> Format0f(grand_total),
            budget |-> Format0f(total_budget),
            over |-> Format0f(grand_total - total_budget)]>>
    ELSE <<>>

build_cost_summary(days, total_budget, transport_mode) ==
    LET grand_total == SumSeq([i \in 1..Len(days) |-> days[i].cost_breakdown.total])
    IN  [grand_total      |-> grand_total,
         total_budget     |-> total_budget,
         within_budget    |-> grand_total <= total_budget,
         budget_remaining |-> total_budget - grand_total,
         per_day_avg      |-> RoundDiv(grand_total, Max(Len(days), 1)),
         transport_mode   |-> transport_mode,
         warnings         |-> DayCapWarnings(days, 1)
                              \o TotalWarning(grand_total, total_budget)]

----------------------------------------------------------------------------
(* services/planner.py *)

HotelDefaultLat == 10
HotelDefaultLon == 0

NoRet == [returned |-> FALSE]
NoConfig == [resolved |-> FALSE]

\* req.hotel_lat or 13.0827
HotelLat(req) ==
    IF req.hotel_lat # None /\ req.hotel_lat[1] # 0 THEN req.hotel_lat[1]
    ELSE HotelDefaultLat

\* req.hotel_lon or 80.2707
HotelLon(req) ==
    IF req.hotel_lon # None /\ req.hotel_lon[1] # 0 THEN req.hotel_lon[1]
    ELSE HotelDefaultLon

\* user_day_map.get(day_num, DayConstraint(...)): of several constraints with
\* the same day number the dict keeps the last
DayConstraintFor(req, cfg, n) ==
    LET idx == {i \in 1..Len(req.day_constraints) :
                    req.day_constraints[i].day_number = n}
    IN  IF idx # {}
        THEN req.day_constraints[CHOOSE i \in idx : \A j \in idx : j <= i]
        ELSE [day_number |-> n, start_time |-> cfg.start_time,
              end_time |-> cfg.end_time, pace |-> cfg.pace,
              fixed_pois |-> <<>>, excluded_pois |-> <<>>,
              max_budget |-> None, transport_override |-> None]

\* list(used_pois): the ids of the set, in some order
RECURSIVE SetToSeq(_)
SetToSeq(S) ==
    IF S = {} THEN <<>>
    ELSE LET x == CHOOSE x \in S : TRUE IN <<x>> \o SetToSeq(S \ {x})

\* an exclusion list that leaves the day's own exclusions out
AllExcluded_used(used, dc) == SetToSeq(used)

\* list(used_pois) + dc.excluded_pois
AllExcluded(used, dc) == SetToSeq(used) \o dc.excluded_pois

\* fixed + [p for p in candidates if p["poi_id"] not in dc.fixed_pois]
DayPool(docs, candidates, dc) ==
    get_poi_by_ids(docs, dc.fixed_pois)
    \o SelectSeq(candidates, LAMBDA p : p.poi_id \notin Range(dc.fixed_pois))

\* dc.max_budget or config["budget_per_day"]
DayBudget(dc, cfg) ==
    IF dc.max_budget # None /\ dc.max_budget[1] # 0 THEN dc.max_budget[1]
    ELSE cfg.budget_per_day

\* step 4 of the loop: the warning put into the cost breakdown of an over-budget day
WithBudgetWarning(day_sched, day_budget, client) ==
    IF day_sched.cost_breakdown.total > day_budget
    THEN [day_sched EXCEPT !.cost_breakdown =
             [k \in DOMAIN @ \cup {"budget_warning"} |->
                 IF k = "budget_warning"
                 THEN suggest_budget_fix(day_sched.cost_breakdown.total - day_budget,
                                         client)
                 ELSE @[k]]]
    ELSE day_sched

\* a loop that does not record the day's POIs
UsedAfter_forget(used, day_sched) == used

\* step 5 of the loop
UsedAfter(used, day_sched) ==
    used \cup {day_sched.slots[i].poi_id : i \in 1..Len(day_sched.slots)}

\* the ids of a list of POIs
Ids(pois) == [i \in 1..Len(pois) |-> pois[i].poi_id]

\* generate_trip, line 23: the configuration is resolved and the loop is entered
TripStart ==
    /\ call.op = "generate_trip"
    /\ pc = "ready"
    /\ config' = resolve_config(call.req.package_id, call.req.budget_band,
                                call.req.overrides)
    /\ day_num' = 1
    /\ used_pois' = {}
    /\ day_schedules' = <<>>
    /\ day_log' = <<>>
    /\ pc' = "loop"
    /\ UNCHANGED <<trips, catalog, ors, llm, call, ret>>

\* the body of the loop for day n, on the locals of the call (cfg, used) and
\* with the collaborators doing oc and lc: whether it raised, the Day Schedule
\* appended, the used-POI set after it, and what went through the stages
DayIteration(docs, req, cfg, n, used, oc, lc) ==
    LET dc     == DayConstraintFor(req, cfg, n)
        all_excluded == AllExcluded(used, dc)
        cands  == filter_pois(docs, cfg, all_excluded)
        pool   == DayPool(docs, cands.pois, dc)
        res    == schedule_day(pool, dc, cfg.transport_mode,
                               HotelLat(req), HotelLon(req), oc)
        day_budget == DayBudget(dc, cfg)
        day_sched  == WithBudgetWarning(res.sched, day_budget, lc)
    IN  [raised    |-> cands.raised \/ res.raised,
         day_sched |-> day_sched,
         used      |-> UsedAfter(used, day_sched),
         log       |-> [day_number |-> n,
                        dc         |-> dc,
                        excluded   |-> Range(all_excluded),
                        candidates |-> Ids(cands.pois),
                        pool       |-> Ids(pool),
                        ordered    |-> Ids(res.ordered),
                        day_budget |-> day_budget,
                        routing    |-> IF RoutedPool(pool, dc) = <<>>
                                       THEN "uncalled" ELSE oc]]

\* the ItineraryResponse built after the loop
TripResponse(req, cfg, days, lc) ==
    [returned       |-> TRUE,
     package_name   |-> cfg.name,
     num_days       |-> req.num_days,
     transport_mode |-> cfg.transport_mode,
     days           |-> days,
     cost_summary   |-> build_cost_summary(days, cfg.budget_per_day * req.num_days,
                                           cfg.transport_mode),
     llm_summary    |-> generate_summary(lc)]

\* one iteration of the loop over range(1, req.num_days + 1)
TripDay ==
    /\ call.op = "generate_trip"
    /\ pc = "loop"
    /\ day_num <= call.req.num_days
    /\ \E oc \in OrsOutcomes(ors), lc \in LlmOutcomes(llm) :
       LET it == DayIteration(catalog, call.req, config, day_num, used_pois, oc, lc)
       IN  IF it.raised
           THEN /\ pc' = "error"
                /\ UNCHANGED <<day_num, used_pois, day_schedules, day_log>>
           ELSE /\ used_pois' = it.used
                /\ day_schedules' = Append(day_schedules, it.day_sched)
                /\ day_log' = Append(day_log, it.log)
                /\ day_num' = day_num + 1
                /\ pc' = "loop"
    /\ UNCHANGED <<trips, catalog, ors, llm, call, ret, config>>

\* after the loop: the cost summary, the summary text and the response
TripFinish ==
    /\ call.op = "generate_trip"
    /\ pc = "loop"
    /\ day_num > call.req.num_days
    /\ \E lc \in LlmOutcomes(llm) :
          ret' = TripResponse(call.req, config, day_schedules, lc)
    /\ pc' = "done"
    /\ UNCHANGED <<trips, catalog, ors, llm, call, config, day_num, used_pois,
                   day_schedules, day_log>>

----------------------------------------------------------------------------
(* The place documents the inputs are drawn from *)

\* doc.to_dict() with poi_id = doc.id; tags and activities are held as
\* _to_list leaves them, opening_hours as the pair _parse_time gives for a
\* parseable "HH:MM-HH:MM" and <<>> otherwise
Doc(id, cat, lat, fee, dur, rating, pop, tags, acts, wheel, always, hours) ==
    [poi_id |-> id, category_primary |-> cat, lat |-> lat, lon |-> 0,
     entry_fee |-> fee, duration_minutes |-> dur, rating |-> rating,
     popularity_score |-> pop, tags |-> tags, activities |-> acts,
     wheelchair_accessible |-> wheel, is_open_24hrs |-> always,
     opening_hours |-> hours]

Fort    == Doc("fort", "heritage", 12, 5000, 90, 45, 90, {"fort", "colonial"},
               <<"museum_visit">>, TRUE, FALSE, <<540, 1080>>)
Temple  == Doc("temple", "temple", 16, 0, Missing, 47, 80, {"dravidian", "hindu"},
               <<"prayer">>, FALSE, TRUE, <<>>)
Museum  == Doc("museum", "museum", 9, Missing, 120, 42, 80, {},
               <<"planetarium_shows">>, TRUE, FALSE, <<600, 1020>>)
Zoo     == Doc("zoo", "park", 30, 20000, 180, 44, 95, {"zoo", "family"},
               <<"lion_safari", "battery_vehicle">>, TRUE, FALSE, <<510, 1050>>)
Shrine  == Doc("shrine", "temple", 10, 0, 45, Missing, Missing, {"shiva"},
               <<>>, FALSE, FALSE, <<>>)
Ruin    == Doc("ruin", "heritage", 13, Bad, 60, 41, 70, {"british"},
               <<"photography">>, FALSE, FALSE, <<>>)
Church  == Doc("church", "heritage", 7, 0, 60, Bad, 60, {"colonial"},
               <<>>, TRUE, FALSE, <<480, 1140>>)
Gallery == Doc("gallery", "museum", 11, 12000, 30, 38, 85, {"fort"},
               <<>>, TRUE, FALSE, <<>>)
Palace  == Doc("palace", "heritage", 14, 3000, 60, 46, 80, {},
               <<"history_tour">>, FALSE, FALSE, <<540, 1200>>)

Tomb    == Doc("tomb", "heritage", 15, 0, 30, 47, 80, {"8th_century"},
               <<>>, FALSE, TRUE, <<>>)

NoOverrides ==
    [transport_mode |-> None, max_entry_fee |-> None, total_budget |-> None,
     num_days |-> None, start_time |-> None, end_time |-> None, pace |-> None,
     wheelchair_only |-> None, extra_activities |-> <<>>]

----------------------------------------------------------------------------
(* SpecConfig: resolve_config on every preset, tier and choice of overrides *)

ConfigOverrides ==
    {[NoOverrides EXCEPT !.max_entry_fee = fee, !.transport_mode = mode,
                         !.total_budget = budget, !.pace = pace,
                         !.start_time = st, !.end_time = en,
                         !.wheelchair_only = wheel] :
        fee \in {None, Some(0), Some(20000)},
        mode \in {None, Some("metro")},
        budget \in {None, Some(0), Some(50000)},
        pace \in {None, Some("packed")},
        st \in {None, Some(600)},
        en \in {None, Some(1020)},
        wheel \in {None, Some(TRUE), Some(FALSE)}}

Idle ==
    /\ config = NoConfig
    /\ day_num = 0
    /\ used_pois = {}
    /\ day_schedules = <<>>
    /\ day_log = <<>>
    /\ ret = NoRet
    /\ pc = "ready"
    /\ trips = <<>>

InitConfig ==
    /\ catalog = <<>>
    /\ ors = "absent"
    /\ llm = "absent"
    /\ call \in {[op |-> "resolve_config", package_id |-> p, budget_band |-> b,
                  overrides |-> o] :
                    p \in PackageIds \cup {"pkg-unknown"},
                    b \in BandIds \cup {"luxury"},
                    o \in ConfigOverrides}
    /\ Idle

ResolveCall ==
    /\ call.op = "resolve_config"
    /\ pc = "ready"
    /\ config' = resolve_config(call.package_id, call.budget_band, call.overrides)
    /\ ret' = [returned |-> TRUE]
    /\ pc' = "done"
    /\ UNCHANGED <<trips, catalog, ors, llm, call, day_num, used_pois, day_schedules,
                   day_log>>

NextConfig == ResolveCall

SpecConfig == InitConfig /\ [][NextConfig]_vars

----------------------------------------------------------------------------
(* SpecFilter: filter_pois on the configuration resolved for a request *)

FilterDocs == {Fort, Temple, Museum, Shrine, Ruin, Church, Gallery, Tomb}

FilterOverrides ==
    {[NoOverrides EXCEPT !.max_entry_fee = fee, !.wheelchair_only = wheel] :
        fee \in {None, Some(0)}, wheel \in {None, Some(TRUE)}}

InitFilter ==
    /\ catalog \in InjSeqs(FilterDocs, MaxDocs)
    /\ ors = "absent"
    /\ llm = "absent"
    /\ call \in {[op |-> "filter_pois", package_id |-> p, budget_band |-> "budget",
                  overrides |-> o, with_tags |-> t, excluded |-> x] :
                    p \in {"pkg-heritage", "pkg-spiritual"},
                    o \in FilterOverrides,
                    t \in BOOLEAN,
                    x \in {<<>>, <<"fort">>}}
    /\ Idle

\* the configuration of the call: the resolved one, or the same with no tags
FilterConfig ==
    [resolve_config(call.package_id, call.budget_band, call.overrides)
        EXCEPT !.tags = IF call.with_tags THEN @ ELSE <<>>]

FilterCall ==
    /\ call.op = "filter_pois"
    /\ pc = "ready"
    /\ config' = FilterConfig
    /\ ret' = filter_pois(catalog, FilterConfig, call.excluded)
    /\ pc' = "done"
    /\ UNCHANGED <<trips, catalog, ors, llm, call, day_num, used_pois, day_schedules,
                   day_log>>

NextFilter == FilterCall

SpecFilter == InitFilter /\ [][NextFilter]_vars

----------------------------------------------------------------------------
(* SpecDay: schedule_day on every pool, window, pace and mode *)

DayDocs == {Fort, Temple, Museum, Zoo, Shrine, Ruin}

DayWindows == {<<540, 660>>, <<540, 1080>>, <<600, 540>>, <<1200, 1439>>}

DayConstraints(n) ==
    {[day_number |-> n, start_time |-> w[1], end_time |-> w[2], pace |-> p,
      fixed_pois |-> <<>>, excluded_pois |-> <<>>, max_budget |-> None,
      transport_override |-> t] :
        w \in DayWindows, p \in PaceIds, t \in {None, Some("bus")}}

\* a pool longer than the stop cap of every pace tier
LongPool == <<Fort, Temple, Museum, Zoo, Shrine, Gallery, Palace, Church>>

InitDay ==
    /\ catalog = <<>>
    /\ ors \in {"absent", "fails", "road", "ring"}
    /\ llm = "absent"
    /\ call \in {[op |-> "schedule_day", pois |-> ps, dc |-> dc,
                  transport_mode |-> "auto", hotel_lat |-> HotelDefaultLat,
                  hotel_lon |-> HotelDefaultLon] :
                    ps \in InjSeqs(DayDocs, MaxPool) \cup {LongPool},
                    dc \in DayConstraints(1)}
    /\ Idle

DayCall ==
    /\ call.op = "schedule_day"
    /\ pc = "ready"
    /\ ret' = schedule_day(call.pois, call.dc, call.transport_mode,
                           call.hotel_lat, call.hotel_lon, ors)
    /\ pc' = "done"
    /\ UNCHANGED <<trips, catalog, ors, llm, call, config, day_num, used_pois,
                   day_schedules, day_log>>

NextDay == DayCall

SpecDay == InitDay /\ [][NextDay]_vars

----------------------------------------------------------------------------
(* SpecCost: build_cost_summary on lists of Day Schedules *)

\* a Day Schedule with the given total; cap: a "max_budget" entry, or None
CostDay(n, total, cap) ==
    [day_number |-> n, slots |-> <<>>, total_mins |-> 0, free_mins |-> 0,
     cost_breakdown |->
        IF cap = None
        THEN [entry |-> 0, transport |-> total, extras |-> 0,
              return_transport |-> total, total |-> total]
        ELSE [entry |-> 0, transport |-> total, extras |-> 0,
              return_transport |-> total, total |-> total, max_budget |-> cap[1]]]

CostDayLists ==
    UNION {{[i \in 1..k |-> CostDay(i, f[i][1], f[i][2])] :
                f \in [1..k -> {0, 45050, 120000} \X {None, Some(40000)}]} :
           k \in 0..MaxCostDays}

InitCost ==
    /\ catalog = <<>>
    /\ ors = "absent"
    /\ llm = "absent"
    /\ call \in {[op |-> "build_cost_summary", days |-> ds, total_budget |-> b,
                  transport_mode |-> "auto"] :
                    ds \in CostDayLists, b \in {0, 45050, 120000, 240000}}
    /\ Idle

CostCall ==
    /\ call.op = "build_cost_summary"
    /\ pc = "ready"
    /\ ret' = build_cost_summary(call.days, call.total_budget, call.transport_mode)
    /\ pc' = "done"
    /\ UNCHANGED <<trips, catalog, ors, llm, call, config, day_num, used_pois,
                   day_schedules, day_log>>

NextCost == CostCall

SpecCost == InitCost /\ [][NextCost]_vars

----------------------------------------------------------------------------
(* Spec: generate_trip *)

CatalogGood == <<Fort, Temple, Museum, Palace, Zoo, Gallery, Shrine>>

TripCatalogs == {CatalogGood, <<Ruin>> \o CatalogGood,
                 CatalogGood \o <<Church>>, <<Temple, Fort>>}

\* the Day Constraints a request may carry for day n
TripConstraints(n) ==
    {[day_number |-> n, start_time |-> 540, end_time |-> 780, pace |-> "relaxed",
      fixed_pois |-> <<"fort">>, excluded_pois |-> <<>>,
      max_budget |-> Some(10000), transport_override |-> None],
     [day_number |-> n, start_time |-> 600, end_time |-> 540, pace |-> "normal",
      fixed_pois |-> <<>>, excluded_pois |-> <<>>,
      max_budget |-> None, transport_override |-> None],
     [day_number |-> n, start_time |-> 540, end_time |-> 1140, pace |-> "normal",
      fixed_pois |-> <<>>, excluded_pois |-> <<"temple">>,
      max_budget |-> Some(0), transport_override |-> Some("bus")],
     [day_number |-> n, start_time |-> 720, end_time |-> 1380, pace |-> "packed",
      fixed_pois |-> <<"zoo", "fort">>, excluded_pois |-> <<"fort">>,
      max_budget |-> Some(500000), transport_override |-> Some("")],
     [day_number |-> n, start_time |-> 1200, end_time |-> 1439, pace |-> "normal",
      fixed_pois |-> <<"temple", "temple">>, excluded_pois |-> <<>>,
      max_budget |-> None, transport_override |-> None]}

\* for each of the days 1..k, no constraint or one of TripConstraints
RECURSIVE TripConstraintLists(_)
TripConstraintLists(k) ==
    IF k = 0 THEN {<<>>}
    ELSE {l \o t : l \in TripConstraintLists(k - 1),
                   t \in {<<>>} \cup {<<c>> : c \in TripConstraints(k)}}

TripOverrides ==
    {NoOverrides, [NoOverrides EXCEPT !.max_entry_fee = Some(0)]}

TripRequests ==
    {[package_id |-> p, num_days |-> n, budget_band |-> b, hotel_lat |-> None,
      hotel_lon |-> None, overrides |-> o, day_constraints |-> dcs] :
        p \in {"pkg-heritage", "pkg-family"},
        n \in 0..MaxDays,
        b \in {"economy"},
        o \in TripOverrides,
        dcs \in TripConstraintLists(MaxDays)}

Init ==
    /\ catalog \in TripCatalogs
    /\ ors \in {"absent", "flaky"}
    /\ llm \in {"absent", "flaky"}
    /\ call \in {[op |-> "generate_trip", req |-> r] :
                    r \in {q \in TripRequests :
                              Len(q.day_constraints) <= Max(q.num_days, 1)}}
    /\ Idle

Next ==
    \/ TripStart
    \/ TripDay
    \/ TripFinish

Spec == Init /\ [][Next]_vars

----------------------------------------------------------------------------
(* Claims about schedule_day, under SpecDay *)

DayReturned == call.op = "schedule_day" /\ pc = "done" /\ ~ret.raised

\* C1: in every Day Schedule schedule_day returns, each slot's departure
\* (end_time) is at or before the day's end time, and the arrivals (start_time)
\* and the departures are non-decreasing along the slot list.
C1_SlotsWithinDay ==
    DayReturned =>
        LET slots == ret.sched.slots
        IN  /\ \A i \in 1..Len(slots) : slots[i].end_time <= call.dc.end_time
            /\ \A i \in 1..(Len(slots) - 1) :
                  /\ slots[i].start_time <= slots[i + 1].start_time
                  /\ slots[i].end_time <= slots[i + 1].end_time

\* a returned day of at least two slots whose walk stopped at the day's end
C1_Witness ==
    /\ DayReturned
    /\ Len(ret.sched.slots) >= 2
    /\ Len(ret.sched.slots) < Len(ret.ordered)
    /\ ret.sched.slots[Len(ret.sched.slots)].end_time <= call.dc.end_time

\* the minutes the slots and the return leg of a Day Schedule take, from its
\* slots: travel and visit of every slot, and the leg from the last stop (the
\* origin when there is none) back to the origin
MinutesOf(sched, dc, transport_mode, hotel_lat, hotel_lon) ==
    LET slots == sched.slots
        n     == Len(slots)
        last_lat == IF n = 0 THEN hotel_lat ELSE slots[n].lat
        last_lon == IF n = 0 THEN hotel_lon ELSE slots[n].lon
    IN  SumSeq([i \in 1..n |->
                   slots[i].travel_from_prev_mins + slots[i].duration_mins])
        + travel_mins(haversine(last_lat, last_lon, hotel_lat, hotel_lon),
                      EffectiveMode(dc, transport_mode))

\* C3: free_mins is never negative and is the day window's minutes less
\* total_mins, clamped at zero, where total_mins includes the return leg; also
\* when total_mins exceeds the window.
C3_FreeMinsClamped ==
    DayReturned =>
        LET sched  == ret.sched
            window == call.dc.end_time - call.dc.start_time
            used   == MinutesOf(sched, call.dc, call.transport_mode,
                                call.hotel_lat, call.hotel_lon)
        IN  /\ sched.total_mins = used
            /\ sched.free_mins >= 0
            /\ sched.free_mins = (IF window - used > 0 THEN window - used ELSE 0)

\* a day whose slots fit the window and whose return leg takes it past the end
C3_Witness ==
    /\ DayReturned
    /\ Len(ret.sched.slots) >= 1
    /\ call.dc.end_time > call.dc.start_time
    /\ ret.sched.total_mins > call.dc.end_time - call.dc.start_time
    /\ ret.sched.free_mins = 0

----------------------------------------------------------------------------
(* Claims about build_cost_summary, under SpecCost *)

CostReturned == call.op = "build_cost_summary" /\ pc = "done"

\* C4: grand_total is the sum of the days' totals, within_budget is true
\* exactly when grand_total <= the trip budget, budget_remaining is the trip
\* budget less grand_total, and the trip-level warning is present exactly when
\* grand_total exceeds the trip budget.
C4_CostSummary ==
    CostReturned =>
        LET totals == [i \in 1..Len(call.days) |-> call.days[i].cost_breakdown.total]
            sum    == SumSeq(totals)
            budget == call.total_budget
        IN  /\ ret.grand_total = sum
            /\ ret.within_budget <=> (sum <= budget)
            /\ ret.budget_remaining = budget - sum
            /\ (\E i \in 1..Len(ret.warnings) : ret.warnings[i].kind = "total")
                   <=> (sum > budget)

\* a summary of two days that is over the budget
C4_Witness ==
    /\ CostReturned
    /\ Len(call.days) = 2
    /\ ret.grand_total > call.total_budget
    /\ ~ret.within_budget
    /\ ret.budget_remaining < 0
    /\ \E i \in 1..Len(ret.warnings) : ret.warnings[i].kind = "total"

----------------------------------------------------------------------------
(* Claims about resolve_config, under SpecConfig *)

ConfigReturned == call.op = "resolve_config" /\ pc = "done"

\* the value the precedence override > tier > preset gives a field
ByPrecedence(override, tier, preset) ==
    IF override # None THEN override[1]
    ELSE IF tier # None THEN tier[1]
    ELSE preset

\* C5: every configurable field (max entry fee, minimum rating, transport
\* mode, per-day budget, pace, day start and end time) is the override when one
\* is supplied, otherwise the budget tier's value when the tier defines the
\* field, otherwise the preset's default.
C5_Precedence ==
    ConfigReturned =>
        LET o    == call.overrides
            tier == BUDGET_BANDS_get(call.budget_band)
            pre  == PACKAGES_get(call.package_id).defaults
        IN  /\ config.max_entry_fee =
                 ByPrecedence(o.max_entry_fee, Some(tier.max_entry_fee), pre.max_entry_fee)
            /\ config.min_rating = ByPrecedence(None, None, pre.min_rating)
            /\ config.transport_mode =
                 ByPrecedence(o.transport_mode, Some(tier.default_transport),
                              pre.transport_mode)
            /\ config.budget_per_day =
                 ByPrecedence(o.total_budget, Some(tier.daily_budget), pre.budget_per_day)
            /\ config.pace = ByPrecedence(o.pace, Some(tier.pace), pre.pace)
            /\ config.start_time = ByPrecedence(o.start_time, None, pre.start_time)
            /\ config.end_time = ByPrecedence(o.end_time, None, pre.end_time)

----------------------------------------------------------------------------
(* Claims about filter_pois, under SpecFilter *)

FilterDone == call.op = "filter_pois" /\ pc = "done"

\* C6: an override of max entry fee 0 is kept as 0 by resolve_config, and
\* filter_pois with max entry fee 0 returns no POI whose entry fee is above 0.
C6_ZeroFeeKept ==
    FilterDone =>
        /\ call.overrides.max_entry_fee = Some(0) => config.max_entry_fee = 0
        /\ (config.max_entry_fee = 0 /\ ~ret.raised) =>
              \A i \in 1..Len(ret.pois) : ret.pois[i].entry_fee \in {0, Missing, Bad}

\* the override is 0, the catalog holds a place with a fee that the tier's
\* maximum would let through, and the call returns other places without it
C6_Witness ==
    /\ FilterDone
    /\ call.overrides.max_entry_fee = Some(0)
    /\ call.excluded = <<>>
    /\ \E i \in 1..Len(catalog) :
          /\ catalog[i].entry_fee > 0
          /\ catalog[i].entry_fee <= BUDGET_BANDS_get(call.budget_band).max_entry_fee
          /\ HardFilters(catalog[i], [config EXCEPT !.max_entry_fee = 10000], <<>>)
          /\ catalog[i].category_primary \in config.category_primary
          /\ catalog[i] \notin Range(ret.pois)
    /\ ~ret.raised
    /\ ret.pois # <<>>

\* the candidates of the query that pass every hard filter
HardPassing ==
    {d \in Range(QueryDocs(catalog, config)) : HardFilters(d, config, call.excluded)}

\* those of them that carry at least one tag of the configuration
TagMatching ==
    {d \in HardPassing : \E i \in 1..Len(config.tags) : config.tags[i] \in d.tags}

\* C7: with a non-empty tag set filter_pois returns exactly the
\* hard-filter-passing candidates that match a tag when there are any, and
\* otherwise all hard-filter-passing candidates; with an empty tag set it
\* returns all hard-filter-passing candidates. The result is empty only when
\* no candidate passes the hard filters.
C7_TagFallback ==
    FilterDone =>
        /\ ~ret.raised
        /\ Range(ret.pois) =
              (IF config.tags # <<>> /\ TagMatching # {} THEN TagMatching
               ELSE HardPassing)

\* C8: a candidate whose entry fee is missing or unparseable passes the fee
\* filter, and one whose rating is missing or unparseable passes the rating
\* filter, whatever the configured maximum fee and minimum rating.
C8_FailOpen ==
    FilterDone =>
        LET kept == Range(PassedPool(catalog, config, call.excluded))
                    \cup Range(NoTagPool(catalog, config, call.excluded))
            Others(d) == /\ d.category_primary \in config.category_primary
                         /\ d.poi_id \notin Range(call.excluded)
                         /\ WheelchairFilter(d, config)
                         /\ _is_open_during(d, config.start_time, config.end_time)
        IN  \A i \in 1..Len(catalog) :
              LET d == catalog[i]
              IN  /\ (d.entry_fee \in {Missing, Bad} /\ Others(d)
                        /\ RatingFilter(d, config.min_rating)) => d \in kept
                  /\ (d.rating \in {Missing, Bad} /\ Others(d)
                        /\ FeeFilter(d, config.max_entry_fee)) => d \in kept

----------------------------------------------------------------------------
(* Claims about generate_trip, under Spec *)

TripReturned == call.op = "generate_trip" /\ pc = "done"

\* the ids of the POIs in the slots of a Day Schedule
SlotIds(day_sched) ==
    {day_sched.slots[i].poi_id : i \in 1..Len(day_sched.slots)}

\* the Day Constraint of day n of the request in flight
ConstraintOfDay(n) ==
    DayConstraintFor(call.req,
                     resolve_config(call.req.package_id, call.req.budget_band,
                                    call.req.overrides), n)

\* C2: no POI id is in the slots of two different days of a trip, except a
\* POI listed in fixed_pois of the later day: a POI scheduled on day k that is
\* not fixed for day k was scheduled on no day before k.
C2_NoReuseAcrossDays ==
    call.op = "generate_trip" =>
        \A k \in 1..Len(day_schedules) :
            \A id \in SlotIds(day_schedules[k]) :
                id \notin Range(ConstraintOfDay(k).fixed_pois)
                    => \A j \in 1..(k - 1) : id \notin SlotIds(day_schedules[j])

\* a returned trip whose second day repeats a POI fixed for it and also
\* schedules one that is not fixed, with the first day not empty
C2_Witness ==
    /\ TripReturned
    /\ Len(ret.days) >= 2
    /\ \E id \in SlotIds(ret.days[2]) :
          /\ id \in Range(ConstraintOfDay(2).fixed_pois)
          /\ id \in SlotIds(ret.days[1])
    /\ \E id \in SlotIds(ret.days[2]) : id \notin Range(ConstraintOfDay(2).fixed_pois)
    /\ Cardinality(SlotIds(ret.days[1])) >= 2

\* a request the spec calls fatal: no day at all, or a day of the trip whose
\* window ends at or before its start
FatalRequest ==
    \/ call.req.num_days <= 0
    \/ \E n \in 1..call.req.num_days :
          ConstraintOfDay(n).end_time <= ConstraintOfDay(n).start_time

\* C9: trip generation surfaces an error and returns no itinerary whenever
\* the day count is <= 0 or a day's window has its end not after its start.
C9_FatalRequestRejected ==
    (call.op = "generate_trip" /\ FatalRequest) => pc # "done"

\* C10: in the Cost Summary of a returned trip, a day whose Day Constraint
\* carries a budget cap and whose total exceeds it has a warning naming the
\* day and the overage, and no other day has one.
C10_DayCapWarnings ==
    TripReturned =>
        \A k \in 1..Len(ret.days) :
            LET cap   == ConstraintOfDay(k).max_budget
                total == ret.days[k].cost_breakdown.total
                warned == \E i \in 1..Len(ret.cost_summary.warnings) :
                             /\ ret.cost_summary.warnings[i].kind = "day_cap"
                             /\ ret.cost_summary.warnings[i].day = k
            IN  IF cap # None /\ total > cap[1]
                THEN \E i \in 1..Len(ret.cost_summary.warnings) :
                        /\ ret.cost_summary.warnings[i].kind = "day_cap"
                        /\ ret.cost_summary.warnings[i].day = k
                        /\ ret.cost_summary.warnings[i].over = Format0f(total - cap[1])
                ELSE ~warned

----------------------------------------------------------------------------
(* Claims about the collaborators of generate_trip, under Spec *)

\* a value in the catalog that float() raises on
DataFault ==
    \E i \in 1..Len(catalog) :
        \/ Unparseable(catalog[i].entry_fee)
        \/ Unparseable(catalog[i].rating)
        \/ Unparseable(catalog[i].popularity_score)

\* the pool of day k of the trip in flight, as documents
PoolOfDay(k) == get_poi_by_ids(catalog, day_log[k].pool)

\* the order the Route Orderer gives the pool of day k on the fallback matrix
FallbackOrder(k) ==
    Ids(optimize_route_greedy(RoutedPool(PoolOfDay(k), day_log[k].dc),
                              HotelLat(call.req), HotelLon(call.req),
                              EffectiveMode(day_log[k].dc, config.transport_mode),
                              "absent"))

SummaryDefaults == {"Your itinerary has been generated successfully!",
                    "Your trip is ready - enjoy exploring Chennai!"}

\* C11: whatever the routing and the text-generation collaborators do at each
\* call (answer, fail, or be absent), generate_trip is aborted by none of it
\* and returns one Day Schedule per requested day; a day whose matrix call
\* failed is ordered on the fallback matrix, a failed suggestion is the empty
\* string and a failed summary is a fixed default string.
C11_CollaboratorFailuresAbsorbed ==
    call.op = "generate_trip" =>
        /\ pc = "error" => DataFault
        /\ \A k \in 1..Len(day_log) :
              day_log[k].routing \in {"absent", "fails"}
                  => day_log[k].ordered = FallbackOrder(k)
        /\ \A k \in 1..Len(day_schedules) :
              LET cb == day_schedules[k].cost_breakdown
              IN  "budget_warning" \in DOMAIN cb
                      => /\ cb.budget_warning \in {"", "suggestion"}
                         /\ llm = "absent" => cb.budget_warning = ""
        /\ TripReturned =>
              /\ Len(ret.days) = Max(0, call.req.num_days)
              /\ \A k \in 1..Len(ret.days) : ret.days[k].day_number = k
              /\ ret.llm_summary \in SummaryDefaults \cup {"summary"}
              /\ llm = "absent" => ret.llm_summary \in SummaryDefaults

\* a returned two-day trip whose first matrix call failed and whose second was
\* answered, with a suggestion that failed on an over-budget day and a summary
\* that failed
C11_Witness ==
    /\ TripReturned
    /\ call.req.num_days = 2
    /\ Len(ret.days) = 2
    /\ day_log[1].routing = "fails"
    /\ Len(day_log[1].ordered) >= 2
    /\ day_log[2].routing = "road"
    /\ llm = "flaky"
    /\ \E k \in 1..2 :
          /\ "budget_warning" \in DOMAIN ret.days[k].cost_breakdown
          /\ ret.days[k].cost_breakdown.budget_warning = ""
    /\ ret.llm_summary = "Your trip is ready - enjoy exploring Chennai!"

----------------------------------------------------------------------------
(* SpecTwo: two generate_trip calls in flight at once.  Each call has its own
   locals (config, day_num, used_pois, day_schedules); the catalog and the
   collaborators are the only things both reach.  A call may be overtaken by
   the other between any two iterations of its loop. *)

TripLocals ==
    [pc |-> "ready", config |-> NoConfig, day_num |-> 0, used_pois |-> {},
     day_schedules |-> <<>>, day_log |-> <<>>, ret |-> NoRet]

\* for each of the days 1..k, no constraint or the one that excludes the temple
RECURSIVE TwoConstraintLists(_)
TwoConstraintLists(k) ==
    IF k = 0 THEN {<<>>}
    ELSE {l \o t : l \in TwoConstraintLists(k - 1),
                   t \in {<<>>,
                          <<[day_number |-> k, start_time |-> 540,
                             end_time |-> 1140, pace |-> "relaxed",
                             fixed_pois |-> <<>>, excluded_pois |-> <<"temple">>,
                             max_budget |-> None,
                             transport_override |-> None]>>}}

TwoRequests ==
    {r \in {[package_id |-> p, num_days |-> n, budget_band |-> "economy",
             hotel_lat |-> None, hotel_lon |-> None, overrides |-> NoOverrides,
             day_constraints |-> dcs] :
                p \in {"pkg-heritage", "pkg-spiritual"},
                n \in 1..MaxDays,
                dcs \in TwoConstraintLists(MaxDays)} :
        Len(r.day_constraints) <= r.num_days}

InitTwo ==
    /\ catalog = CatalogGood
    /\ ors = "absent"
    /\ llm = "absent"
    /\ call \in {[op |-> "two_trips", reqs |-> <<r1, r2>>] :
                    r1 \in TwoRequests, r2 \in TwoRequests}
    /\ trips = <<TripLocals, TripLocals>>
    /\ config = NoConfig
    /\ day_num = 0
    /\ used_pois = {}
    /\ day_schedules = <<>>
    /\ day_log = <<>>
    /\ ret = NoRet
    /\ pc = "ready"

\* the set a call reads as used_pois: a global that every call shares
UsedPoisOf_global(ts, t) == UNION {ts[u].used_pois : u \in DOMAIN ts}

\* the set a call reads as used_pois: the local it made at line 28
UsedPoisOf(ts, t) == ts[t].used_pois

TwoStart(t) ==
    /\ call.op = "two_trips"
    /\ trips[t].pc = "ready"
    /\ trips' = [trips EXCEPT ![t] =
                    [@ EXCEPT !.config = resolve_config(call.reqs[t].package_id,
                                                        call.reqs[t].budget_band,
                                                        call.reqs[t].overrides),
                              !.day_num = 1,
                              !.pc = "loop"]]
    /\ UNCHANGED <<catalog, ors, llm, call, pc, ret, config, day_num, used_pois,
                   day_schedules, day_log>>

TwoDay(t) ==
    /\ call.op = "two_trips"
    /\ trips[t].pc = "loop"
    /\ trips[t].day_num <= call.reqs[t].num_days
    /\ \E oc \in OrsOutcomes(ors), lc \in LlmOutcomes(llm) :
       LET it == DayIteration(catalog, call.reqs[t], trips[t].config,
                              trips[t].day_num, UsedPoisOf(trips, t), oc, lc)
       IN  trips' = [trips EXCEPT ![t] =
                        IF it.raised THEN [@ EXCEPT !.pc = "error"]
                        ELSE [@ EXCEPT !.used_pois = it.used,
                                       !.day_schedules = Append(@, it.day_sched),
                                       !.day_log = Append(@, it.log),
                                       !.day_num = @ + 1]]
    /\ UNCHANGED <<catalog, ors, llm, call, pc, ret, config, day_num, used_pois,
                   day_schedules, day_log>>

TwoFinish(t) ==
    /\ call.op = "two_trips"
    /\ trips[t].pc = "loop"
    /\ trips[t].day_num > call.reqs[t].num_days
    /\ \E lc \in LlmOutcomes(llm) :
          trips' = [trips EXCEPT ![t] =
                       [@ EXCEPT !.ret = TripResponse(call.reqs[t], trips[t].config,
                                                      trips[t].day_schedules, lc),
                                 !.pc = "done"]]
    /\ UNCHANGED <<catalog, ors, llm, call, pc, ret, config, day_num, used_pois,
                   day_schedules, day_log>>

NextTwo ==
    \E t \in DOMAIN trips :
        \/ TwoStart(t)
        \/ TwoDay(t)
        \/ TwoFinish(t)

SpecTwo == InitTwo /\ [][NextTwo]_vars

\* the ids in the slots of the first k - 1 days of trip t
ScheduledBefore(t, k) ==
    UNION {SlotIds(trips[t].day_schedules[j]) : j \in 1..(k - 1)}

\* C12: however two generate_trip calls interleave, the exclusion set used
\* for a day of one trip holds the POI ids scheduled on the earlier days of
\* that trip and that day's excluded_pois, and nothing else: nothing the other
\* trip scheduled gets into it.
C12_ExclusionScopedToTrip ==
    call.op = "two_trips" =>
        \A t \in DOMAIN trips :
            \A k \in 1..Len(trips[t].day_log) :
                trips[t].day_log[k].excluded =
                    ScheduledBefore(t, k)
                    \cup Range(DayConstraintFor(call.reqs[t], trips[t].config,
                                                k).excluded_pois)

\* both calls have returned two days each, the second call did its first day
\* before the first call did its second, and the first call scheduled on its
\* second day a POI the second call had scheduled on its first
C12_Witness ==
    /\ call.op = "two_trips"
    /\ \A t \in DOMAIN trips : trips[t].pc = "done" /\ Len(trips[t].ret.days) = 2
    /\ trips[1].day_log[2].excluded # {}
    /\ SlotIds(trips[1].day_schedules[2]) \cap SlotIds(trips[2].day_schedules[1]) # {}

----------------------------------------------------------------------------
(* SpecRoute: optimize_route_greedy on every list of places, from two origins
   and with every behaviour of the routing collaborator *)

RouteDocs == {Fort, Temple, Museum, Shrine, Gallery, Palace}

InitRoute ==
    /\ catalog = <<>>
    /\ ors \in {"absent", "fails", "road", "ring"}
    /\ llm = "absent"
    /\ call \in {[op |-> "optimize_route_greedy", pois |-> ps, start_lat |-> lat,
                  start_lon |-> HotelDefaultLon, mode |-> "auto"] :
                    ps \in InjSeqs(RouteDocs, MaxPool),
                    lat \in {HotelDefaultLat, Fort.lat}}
    /\ Idle

RouteCall ==
    /\ call.op = "optimize_route_greedy"
    /\ pc = "ready"
    /\ ret' = [returned |-> TRUE,
               ordered  |-> optimize_route_greedy(call.pois, call.start_lat,
                                                  call.start_lon, call.mode, ors)]
    /\ pc' = "done"
    /\ UNCHANGED <<trips, catalog, ors, llm, call, config, day_num, used_pois,
                   day_schedules, day_log>>

NextRoute == RouteCall

SpecRoute == InitRoute /\ [][NextRoute]_vars

RouteReturned == call.op = "optimize_route_greedy" /\ pc = "done"

\* the travel matrix of the call in flight: row and column 1 are the origin,
\* row and column i + 1 the i-th POI of the input
RouteMatrix ==
    get_travel_matrix(<<<<call.start_lat, call.start_lon>>>>
                      \o [i \in 1..Len(call.pois) |->
                             <<call.pois[i].lat, call.pois[i].lon>>],
                      call.mode, ors)

\* the place in the input list of the POI at position p of the output
InputIndex(p) == CHOOSE i \in 1..Len(call.pois) : call.pois[i] = ret.ordered[p]

\* the row of the matrix the choice at position p is made from
RowBefore(p) == IF p = 1 THEN 1 ELSE InputIndex(p - 1) + 1

\* the input places not placed before position p
Unplaced(p) == (1..Len(call.pois)) \ {InputIndex(q) : q \in 1..(p - 1)}

\* C13: optimize_route_greedy returns every input POI exactly once (nothing
\* for an empty input); the POI at each position has the least travel time
\* from the position before it (from the origin at the first position) among
\* the POIs not yet placed, and of several with that least time it is the one
\* earliest in the input.
C13_GreedyNearest ==
    RouteReturned =>
        /\ Len(ret.ordered) = Len(call.pois)
        /\ \A i \in 1..Len(call.pois) :
              Cardinality({p \in 1..Len(ret.ordered) : ret.ordered[p] = call.pois[i]}) = 1
        /\ \A p \in 1..Len(ret.ordered) :
              \A j \in Unplaced(p) :
                  LET chosen == RouteMatrix[RowBefore(p)][InputIndex(p) + 1]
                      other  == RouteMatrix[RowBefore(p)][j + 1]
                  IN  /\ chosen <= other
                      /\ chosen = other => InputIndex(p) <= j

\* a route of at least three places that is not in input order, with a
\* position past the first at which two unplaced places were equally near
C13_Witness ==
    /\ RouteReturned
    /\ Len(ret.ordered) >= 3
    /\ ret.ordered # call.pois
    /\ \E p \in 2..Len(ret.ordered) :
          \E j \in Unplaced(p) :
              /\ j # InputIndex(p)
              /\ RouteMatrix[RowBefore(p)][j + 1]
                     = RouteMatrix[RowBefore(p)][InputIndex(p) + 1]

----------------------------------------------------------------------------
(* Claims about the loop of generate_trip, under Spec *)

\* the ids in the slots of the first k - 1 days of the trip in flight
SlotsBefore(k) == UNION {SlotIds(day_schedules[j]) : j \in 1..(k - 1)}

\* what holds of the loop in every state
DaysInOrder ==
    call.op = "generate_trip" =>
        /\ Len(day_schedules) = Len(day_log)
        /\ pc = "loop" => Len(day_log) = day_num - 1
        /\ used_pois = SlotsBefore(Len(day_schedules) + 1)
        /\ \A k \in 1..Len(day_log) :
              /\ day_log[k].day_number = k
              /\ day_schedules[k].day_number = k
              /\ day_log[k].excluded =
                     SlotsBefore(k) \cup Range(ConstraintOfDay(k).excluded_pois)

\* what holds of every step of the loop
DayStepInOrder ==
    call.op = "generate_trip" =>
        /\ used_pois \subseteq used_pois'
        /\ day_num' \in {day_num, day_num + 1}
        /\ Len(day_log') \in {Len(day_log), Len(day_log) + 1}
        /\ SubSeq(day_log', 1, Len(day_log)) = day_log

\* C14: generate_trip takes the days in the order 1..N; the exclusion list it
\* passes to filter_pois for day k is exactly the ids in the slots of days
\* 1..k-1 together with day k's excluded_pois; the used-POI set only grows, by
\* the ids a day scheduled and by nothing else, so a POI that was in a day's
\* pool without being scheduled stays available to the later days.
C14_DaysInOrder == []DaysInOrder /\ [][DayStepInOrder]_vars

\* a returned two-day trip whose first day left a POI of its pool unscheduled
\* and whose second day scheduled it
C14_Witness ==
    /\ TripReturned
    /\ Len(ret.days) = 2
    /\ SlotIds(ret.days[1]) # {}
    /\ \E id \in Range(day_log[1].pool) \ SlotIds(ret.days[1]) :
          /\ id \notin day_log[2].excluded
          /\ id \in SlotIds(ret.days[2])
    /\ day_log[2].excluded # {}

----------------------------------------------------------------------------
(* Claims about the walk of schedule_day, under SpecDay *)

\* the departure schedule_day computes for the POI at position i of the
\* route-ordered sequence when the i - 1 before it are the slots
DepartureAt(i) ==
    LET slots == ret.sched.slots
        poi   == ret.ordered[i]
        prev_depart == IF i = 1 THEN _parse(call.dc.start_time)
                       ELSE slots[i - 1].end_time
        prev_lat == IF i = 1 THEN call.hotel_lat ELSE slots[i - 1].lat
        prev_lon == IF i = 1 THEN call.hotel_lon ELSE slots[i - 1].lon
    IN  prev_depart
        + travel_mins(haversine(prev_lat, prev_lon, poi.lat, poi.lon),
                      EffectiveMode(call.dc, call.transport_mode))
        + (IF poi.duration_minutes \in {Missing, 0} THEN 60
           ELSE poi.duration_minutes)

\* C15: the slots of a Day Schedule are a prefix of the route-ordered
\* sequence; every scheduled POI departs at or before the day's end, and the
\* first POI whose departure (the departure before it, plus the travel time,
\* plus the visit duration, 60 when the POI gives none) is past the day's end
\* ends the walk: it and all POIs after it are left out.
C15_SlotsArePrefix ==
    DayReturned =>
        LET slots == ret.sched.slots
            n     == Len(slots)
        IN  /\ n <= Len(ret.ordered)
            /\ \A i \in 1..n :
                  /\ slots[i].poi_id = ret.ordered[i].poi_id
                  /\ slots[i].end_time = DepartureAt(i)
                  /\ DepartureAt(i) <= _parse(call.dc.end_time)
            /\ n < Len(ret.ordered)
                  => DepartureAt(n + 1) > _parse(call.dc.end_time)

\* a day whose walk ended at a POI that did not fit although the POI after it
\* in the sequence would have fitted from where the walk stood
C15_Witness ==
    /\ DayReturned
    /\ Len(ret.sched.slots) >= 1
    /\ Len(ret.sched.slots) + 2 <= Len(ret.ordered)
    /\ LET n     == Len(ret.sched.slots)
           last  == ret.sched.slots[n]
           later == ret.ordered[n + 2]
       IN  last.end_time
           + travel_mins(haversine(last.lat, last.lon, later.lat, later.lon),
                         EffectiveMode(call.dc, call.transport_mode))
           + (IF later.duration_minutes \in {Missing, 0} THEN 60
              ELSE later.duration_minutes)
               <= _parse(call.dc.end_time)

\* the cost of the leg from the last slot of a Day Schedule (from the origin
\* when it has no slot) back to the origin
ReturnCostOf(sched, dc, transport_mode, hotel_lat, hotel_lon) ==
    LET n == Len(sched.slots)
        last_lat == IF n = 0 THEN hotel_lat ELSE sched.slots[n].lat
        last_lon == IF n = 0 THEN hotel_lon ELSE sched.slots[n].lon
    IN  transport_cost(haversine(last_lat, last_lon, hotel_lat, hotel_lon),
                       EffectiveMode(dc, transport_mode))

\* C16: in every Day Schedule, with or without slots, entry is the sum of
\* the slots' entry fees, extras the sum of their activity surcharges,
\* transport the sum of their travel_from_prev_cost plus return_transport,
\* total is entry + transport + extras, and total_mins is the sum of the
\* slots' travel and visit minutes plus the minutes of the return leg; the
\* return leg from the last stop (from the origin when there is no stop) is
\* always charged and is not a slot.
C16_CostBreakdownSums ==
    DayReturned =>
        LET sched == ret.sched
            slots == sched.slots
            cb    == sched.cost_breakdown
            n     == Len(slots)
        IN  /\ cb.entry = SumSeq([i \in 1..n |-> slots[i].entry_fee])
            /\ cb.extras = SumSeq([i \in 1..n |-> slots[i].activity_extras])
            /\ cb.transport =
                   SumSeq([i \in 1..n |-> slots[i].travel_from_prev_cost])
                   + cb.return_transport
            /\ cb.total = cb.entry + cb.transport + cb.extras
            /\ cb.return_transport =
                   ReturnCostOf(sched, call.dc, call.transport_mode,
                                call.hotel_lat, call.hotel_lon)
            /\ sched.total_mins = MinutesOf(sched, call.dc, call.transport_mode,
                                            call.hotel_lat, call.hotel_lon)
            /\ n <= Len(ret.ordered)
            /\ \A i \in 1..n : slots[i].poi_id = ret.ordered[i].poi_id

\* a day of at least two slots with entry fees and surcharges, whose last stop
\* is away from the origin
C16_Witness ==
    /\ DayReturned
    /\ Len(ret.sched.slots) >= 2
    /\ ret.sched.cost_breakdown.entry > 0
    /\ ret.sched.cost_breakdown.extras > 0
    /\ ret.sched.slots[Len(ret.sched.slots)].lat # call.hotel_lat
    /\ ret.sched.cost_breakdown.transport
           > ret.sched.cost_breakdown.return_transport

----------------------------------------------------------------------------
(* Claims about the candidates of each day of generate_trip, under Spec *)

\* the opening-hours rule on the window [start, end): open 24 hours, or hours
\* missing or unparseable, or an open interval that meets the window
OpenInWindow(poi, start, end) ==
    \/ poi.is_open_24hrs
    \/ Len(poi.opening_hours) # 2
    \/ ~(poi.opening_hours[2] <= start \/ poi.opening_hours[1] >= end)

\* the documents that pass the query and every hard filter of day k other
\* than the opening hours, and the opening-hours rule on day k's own window
EligibleOnDay(k) ==
    LET dc   == ConstraintOfDay(k)
        docs == QueryDocs(catalog, config)
    IN  {docs[i] : i \in {j \in 1..Len(docs) :
            /\ docs[j].poi_id \notin day_log[k].excluded
            /\ FeeFilter(docs[j], config.max_entry_fee)
            /\ RatingFilter(docs[j], config.min_rating)
            /\ WheelchairFilter(docs[j], config)
            /\ OpenInWindow(docs[j], dc.start_time, dc.end_time)}}

\* C17: on each day k of a trip a POI passes the opening-hours filter
\* exactly when it is open in day k's own window (the Day Constraint's, or the
\* trip defaults when the day has none): every candidate of the day is open
\* in that window, and every tag-matching POI that is open in it and passes
\* the other filters is a candidate.
C17_OpenInDayWindow ==
    call.op = "generate_trip" =>
        \A k \in 1..Len(day_log) :
            /\ Range(day_log[k].candidates)
                   \subseteq {d.poi_id : d \in EligibleOnDay(k)}
            /\ {d.poi_id : d \in {e \in EligibleOnDay(k) :
                                      _tag_score(e, config.tags) > 0}}
                   \subseteq Range(day_log[k].candidates)

\* the stop cap of the call in flight: the upper end of the pace tier's range
StopCap ==
    CASE call.dc.pace = "relaxed" -> 3
      [] call.dc.pace = "normal"  -> 5
      [] call.dc.pace = "packed"  -> 7

\* C18: a Day Schedule has at most as many slots as the upper bound of the
\* stop-count range of the day's pace tier (relaxed 3, normal 5, packed 7),
\* and only the first that-many POIs of the pool handed to schedule_day are
\* route-ordered or scheduled, however long the pool is.
C18_PaceCap ==
    DayReturned =>
        LET first == {call.pois[i].poi_id :
                         i \in 1..(IF Len(call.pois) < StopCap THEN Len(call.pois)
                                   ELSE StopCap)}
        IN  /\ Len(ret.sched.slots) <= StopCap
            /\ {ret.ordered[i].poi_id : i \in 1..Len(ret.ordered)} = first
            /\ Len(ret.ordered) = Cardinality(first)
            /\ SlotIds(ret.sched) \subseteq first

\* a relaxed day with a pool of more than twice the cap, on which as many POIs
\* as the cap allows were scheduled and the POI past the cap was not route-ordered
C18_Witness ==
    /\ DayReturned
    /\ call.dc.pace = "relaxed"
    /\ Len(call.pois) > 2 * StopCap
    /\ Len(ret.sched.slots) = StopCap
    /\ call.pois[StopCap + 1] \notin Range(ret.ordered)

\* the ids in fixed_pois of day k that the catalog can return
FixedOnDay(k) ==
    {id \in Range(ConstraintOfDay(k).fixed_pois) :
        \E i \in 1..Len(catalog) : catalog[i].poi_id = id}

\* C19: on each day, every id of the day's fixed_pois that the catalog can
\* return is in the day's pool exactly once and ahead of every filtered
\* candidate, the candidates following without the fixed ids, whether or not
\* the POI was scheduled on an earlier day, is in the day's excluded_pois or
\* fails a hard filter; and when the fixed POIs are no more than the pace cap
\* allows, all of them are route-ordered.
C19_FixedPoisFirst ==
    call.op = "generate_trip" =>
        \A k \in 1..Len(day_log) :
            LET pool  == day_log[k].pool
                fixed == FixedOnDay(k)
                cap   == PACE_STOPS(ConstraintOfDay(k).pace)[2]
            IN  /\ \A id \in fixed :
                      Cardinality({i \in 1..Len(pool) : pool[i] = id}) = 1
                /\ \A i, j \in 1..Len(pool) :
                      (pool[i] \in fixed /\ pool[j] \notin fixed) => i < j
                /\ SelectSeq(pool, LAMBDA id : id \notin fixed)
                       = SelectSeq(day_log[k].candidates, LAMBDA id : id \notin fixed)
                /\ Cardinality(fixed) <= cap
                       => fixed \subseteq Range(day_log[k].ordered)

\* C20: the budget a day's total is compared with is the Day Constraint's
\* budget cap whenever one is supplied, a cap of 0 included, and the resolved
\* per-day budget only when none is supplied; a day whose total is above that
\* budget, and no other, has a budget_warning entry in its cost breakdown.
C20_DayBudgetCap ==
    call.op = "generate_trip" =>
        \A k \in 1..Len(day_log) :
            LET cap    == ConstraintOfDay(k).max_budget
                budget == IF cap # None THEN cap[1] ELSE config.budget_per_day
                cb     == day_schedules[k].cost_breakdown
            IN  /\ day_log[k].day_budget = budget
                /\ "budget_warning" \in DOMAIN cb <=> cb.total > budget

----------------------------------------------------------------------------
(* Claims about the order of the list filter_pois returns, under SpecFilter *)

\* the three keys of a candidate: tag score, popularity score and rating, the
\* last two 0 when the document has none
KeysOf(poi) ==
    <<_tag_score(poi, config.tags),
      IF poi.popularity_score = Missing THEN 0 ELSE poi.popularity_score,
      IF poi.rating = Missing THEN 0 ELSE poi.rating>>

\* keys a sort ahead of keys b: higher on the first key they differ in
KeysAhead(a, b) ==
    \/ a[1] > b[1]
    \/ a[1] = b[1] /\ a[2] > b[2]
    \/ a[1] = b[1] /\ a[2] = b[2] /\ a[3] > b[3]

\* the place of a returned candidate in the order the catalog returned it
CatalogIndex(poi) == CHOOSE i \in 1..Len(catalog) : catalog[i].poi_id = poi.poi_id

\* C21: the list filter_pois returns is ordered by tag score descending, then
\* popularity score descending, then rating descending, and two candidates
\* equal on all three keys are in the order in which the catalog returned them.
C21_SortedStable ==
    (FilterDone /\ ~ret.raised) =>
        \A i, j \in 1..Len(ret.pois) :
            i < j =>
                /\ ~KeysAhead(KeysOf(ret.pois[j]), KeysOf(ret.pois[i]))
                /\ KeysOf(ret.pois[i]) = KeysOf(ret.pois[j])
                       => CatalogIndex(ret.pois[i]) < CatalogIndex(ret.pois[j])

\* a returned list of three candidates that is not in catalog order and holds
\* two candidates equal on all three keys
C21_Witness ==
    /\ FilterDone
    /\ ~ret.raised
    /\ Len(ret.pois) >= 3
    /\ \E i, j \in 1..Len(ret.pois) :
          i < j /\ CatalogIndex(ret.pois[i]) > CatalogIndex(ret.pois[j])
    /\ \E i, j \in 1..Len(ret.pois) :
          i < j /\ KeysOf(ret.pois[i]) = KeysOf(ret.pois[j])

====
